---- MODULE Spec2Model ----
(***************************************************************************)
(* Model of src/thermistor/pyTempMonitor.pyw: the Tk timer loop            *)
(* (update_data), the voltage -> resistance -> temperature conversion      *)
(* (processVoltage), the alarm latch (check_alarms / send_alarm_email),    *)
(* the threshold update (update_max_temps), the export (save_data) and     *)
(* the shutdown (on_closing).                                              *)
(*                                                                         *)
(* Tk runs every callback on one thread.  update_data never enters the     *)
(* event loop itself, so no other callback starts while it is between its  *)
(* first and last line; the modal dialogs of save_data and on_closing do   *)
(* run the event loop, so the timer callback may run while one is open.    *)
(* update_data is split at the points where it calls out (read, log,       *)
(* SMTP, plot); the variable pc is its position.                           *)
(***************************************************************************)
EXTENDS Integers, Sequences, FiniteSets, TLC

VARIABLES
    pc,                  \* position of update_data ("init": called from __init__)
    key_i,               \* index in ljsID of the device update_data is at
    ch_i,                \* index of the channel check_alarms is at
    voltages,            \* result of self.ljs.read() in the current cycle
    time_data,           \* self.time_data
    temp_data,           \* self.temp_data[key], one entry per column
    voltage_data,        \* self.voltage_data[key], one entry per column
    max_temps,           \* self.max_temps[key][i]
    alarm_triggered,     \* self.alarm_triggered[key][i]
    plot_channel,        \* self.plot_channel[key][i]
    temp_interpolate_50k,\* "interp1d" or "None" (getThermistorData failed)
    timers,              \* number of pending self.after callbacks
    dialog,              \* the modal messagebox that is open, or "none"
    destroyed,           \* self.destroy() has run
    hw_closed,           \* self.ljs.closeLJ() has run
    raised,              \* what raised inside the try block of this cycle
    raised_key,          \* the device the failure belongs to
    done,                \* per device, the stages completed in this cycle
    sent,                \* send_alarm_email calls of this cycle
    latch0,              \* alarm_triggered as it was when the cycle started
    last_set,            \* thresholds last accepted from the entry fields
    akey, temps_in, idx, events,  \* harness of the check_alarms specification
    plot_n, drawn,       \* update_plot on its own: self.log_max, the slices drawn
    cfg_vin, conv_in, conv_out,   \* processVoltage on its own: self.vin[key],
                         \* the readings passed, the result
    upd_entries, upd_sections, upd_before  \* update_max_temps on its own: the
                         \* entry texts, the alarm sections, max_temps before

vars == <<pc, key_i, ch_i, voltages, time_data, temp_data, voltage_data,
          max_temps, alarm_triggered, plot_channel, temp_interpolate_50k,
          timers, dialog, destroyed, hw_closed, raised, raised_key, done,
          sent, latch0, last_set, akey, temps_in, idx, events,
          plot_n, drawn, cfg_vin, conv_in, conv_out,
          upd_entries, upd_sections, upd_before>>

----------------------------------------------------------------------------
(* Bounds of the model. *)

\* cycles that append a timestamp (length of time_data)
MaxCycles == 2

\* length of the temperature sequences fed to check_alarms in SpecAlarm
MaxLen == 5

\* length of the history update_plot is applied to in SpecPlot
MaxHist == 7

\* largest retention-window size (log_max) drawn in SpecPlot
MaxWindow == 7

----------------------------------------------------------------------------
(* Configuration (getConfig): two devices, the first with two channels. *)

\* self.ljsID, in iteration order
ljsID == <<"A", "B">>

Keys == {ljsID[n] : n \in 1..Len(ljsID)}

\* self.read_channels[key]: the channel numbers that are configured
read_channels == [A |-> <<0, 1>>, B |-> <<0>>]

\* self.resistances[key]: reference resistances (kOhm)
resistances == [A |-> <<30, 30>>, B |-> <<30>>]

\* self.max_temps[key] as read from the configuration file
config_max_temps == [A |-> <<2, 2>>, B |-> <<2>>]

\* self.log_max
log_max == 2

\* the excitation voltage processVoltage uses, in millivolt (2.5 V)
vin == 2500

NumCh(key) == Len(read_channels[key])

Channels(key) == 1..NumCh(key)

\* raw millivolt values a channel can read: 1000 and 1250 convert, 2500 does not
RawMV == {1000, 1250, 2500}

\* raw millivolt values passed to processVoltage on its own: below, at and
\* above each excitation voltage of VinVals
ConvMV == {0, 1000, 1250, 2000, 2500, 3000}

\* the excitation voltages (VIN of a device section, in millivolt) a
\* configuration can give a device
VinVals == {1000, 2500, 5000}

\* what the user can have typed into a Max Temp entry
EntryTexts == {"2", "3", "x"}

\* the (resistance, temperature) rows of the datasheet, resistance ascending
thermistor_table == <<<<20, 3>>, <<30, 2>>>>

----------------------------------------------------------------------------
(* Pure helpers. *)

\* list.index(x): the position of x in seq (0 when absent: ValueError)
IndexOf(seq, x) ==
    IF \E n \in 1..Len(seq) : seq[n] = x
    THEN CHOOSE n \in 1..Len(seq) : seq[n] = x /\ \A m \in 1..(n-1) : seq[m] # x
    ELSE 0

\* float(entry.get()) succeeds
IsFloat(text) == text \in {"2", "3"}

\* float(entry.get())
float(text) == CASE text = "2" -> 2 [] text = "3" -> 3 [] OTHER -> 0

\* seq[-m:] of Python: m = 0 gives the whole list, m < 0 drops the first -m
PySliceLast(seq, m) ==
    IF m = 0 THEN seq
    ELSE IF m > 0
         THEN IF m >= Len(seq) THEN seq
              ELSE SubSeq(seq, Len(seq) - m + 1, Len(seq))
         ELSE IF -m >= Len(seq) THEN <<>>
              ELSE SubSeq(seq, -m + 1, Len(seq))

Min(a, b) == IF a <= b THEN a ELSE b

\* interp1d: the call raises ValueError outside the table's domain
InterpInDomain(r) ==
    /\ r >= thermistor_table[1][1]
    /\ r <= thermistor_table[Len(thermistor_table)][1]

\* interp1d: linear interpolation between the two bracketing rows
Interp(r) ==
    LET n  == CHOOSE m \in 1..(Len(thermistor_table) - 1) :
                  /\ thermistor_table[m][1] <= r
                  /\ r <= thermistor_table[m + 1][1]
        x0 == thermistor_table[n][1]
        y0 == thermistor_table[n][2]
        x1 == thermistor_table[n + 1][1]
        y1 == thermistor_table[n + 1][2]
    IN  y0 + ((y1 - y0) * (r - x0)) \div (x1 - x0)

\* the resistance of one reading <<mV, channel number>>: (r1 * v) / (vin - v),
\* both voltages taken in millivolt (the raw values are chosen so that the
\* quotient is exact)
Resistance(mV, key) ==
    LET r1 == resistances[key][IndexOf(read_channels[key], mV[2])]
    IN  IF vin - mV[1] > 0
        THEN (r1 * mV[1]) \div (vin - mV[1])
        ELSE -((r1 * mV[1]) \div (mV[1] - vin))

\* one iteration of the loop of processVoltage raises: the channel is not
\* configured (ValueError of index), vin - v is zero (ZeroDivisionError), the
\* interpolator is None (TypeError) or the resistance is outside its domain
ConvertRaises(mV, key, interp) ==
    \/ IndexOf(read_channels[key], mV[2]) = 0
    \/ vin - mV[1] = 0
    \/ interp = "None"
    \/ ~InterpInDomain(Resistance(mV, key))

\* variant: a failing channel yields a large sentinel instead of raising
processVoltage_sentinel(vs, key, interp) ==
    [raises |-> FALSE,
     temp |-> [n \in 1..Len(vs) |->
                 IF ConvertRaises(vs[n], key, interp) THEN 999
                 ELSE Interp(Resistance(vs[n], key))],
     resistance |-> [n \in 1..Len(vs) |->
                 IF ConvertRaises(vs[n], key, interp) THEN 0
                 ELSE Resistance(vs[n], key)]]

\* processVoltage(voltages, key): [raises, temp, resistance]; the first
\* failing channel raises and nothing is returned
processVoltage(vs, key, interp) ==
    IF \E n \in 1..Len(vs) : ConvertRaises(vs[n], key, interp)
    THEN [raises |-> TRUE, temp |-> <<>>, resistance |-> <<>>]
    ELSE [raises |-> FALSE,
          temp |-> [n \in 1..Len(vs) |-> Interp(Resistance(vs[n], key))],
          resistance |-> [n \in 1..Len(vs) |-> Resistance(vs[n], key)]]

\* variant: the email is sent on every reading above the threshold
AlarmSends_every_reading(temp_val, thr, latched) == temp_val > thr

\* check_alarms, one channel: send_alarm_email is called
AlarmSends(temp_val, thr, latched) == temp_val > thr /\ ~latched

\* check_alarms, one channel: the latch after the iteration
AlarmLatch(temp_val, thr, latched) ==
    IF temp_val > thr
    THEN (IF ~latched THEN TRUE ELSE latched)
    ELSE FALSE

\* variant: the new values are written to the configuration only
update_from_config_only(mt, entries, sections, n) == mt

\* update_max_temps from device number n on: a device whose entries all parse
\* gets its list replaced; a ValueError skips the device; config.set on a
\* missing section raises NoSectionError, which ends the whole call
RECURSIVE update_from(_, _, _, _)
update_from(mt, entries, sections, n) ==
    IF n > Len(ljsID) THEN mt
    ELSE LET key == ljsID[n] IN
         IF \E c \in Channels(key) : ~IsFloat(entries[key][c])
         THEN update_from(mt, entries, sections, n + 1)
         ELSE LET mt2 == [mt EXCEPT ![key] =
                             [c \in Channels(key) |-> float(entries[key][c])]]
              IN  IF key \in sections
                  THEN update_from(mt2, entries, sections, n + 1)
                  ELSE mt2

\* variant: except ValueError, so any other exception leaves update_data
\* before line 250 and the callback returns to the event loop
except_ValueError(what) == IF what = "convert" THEN "after" ELSE "idle"

\* the except clause of update_data: every Exception raised inside the try
\* block is caught and control reaches self.after
except_Exception(what) == "after"

\* variant: the next cycle is scheduled twice
after_twice(n) == n + 2

\* self.after(self.timer_value, self.update_data): one more pending timer
after(n) == n + 1

\* update_plot, lines 257-265: max_points = min(log_max, len(time_data)) and
\* the slice [-max_points:] of a series
plot_slice(series, n, length) == PySliceLast(series, Min(n, length))

\* the time slice update_plot draws
time_array == plot_slice(time_data, log_max, Len(time_data))

\* the temperature slice update_plot draws for a device
temp_array(key) == plot_slice(temp_data[key], log_max, Len(time_data))

\* ax.plot raises ValueError when a plotted row and the time slice differ in length
PlotRaises ==
    \E key \in Keys : \E c \in Channels(key) :
        plot_channel[key][c] /\ Len(temp_array(key)) # Len(time_array)

\* save_data can build the DataFrame: every column has as many rows as Time
ExportAssembles ==
    \A key \in Keys :
        /\ Len(temp_data[key]) = Len(time_data)
        /\ Len(voltage_data[key]) = Len(time_data)

----------------------------------------------------------------------------
(* The application: Init is the state at line 101, where __init__ is about *)
(* to call update_data for the first time.                                 *)

NoReading == [key \in Keys |-> <<>>]

\* what self.ljs.read() can return: for every device, one <<mV, channel
\* number>> pair per configured channel, in the configured order
Readings ==
    {[key \in Keys |->
        [c \in Channels(key) |-> <<raw[key][c], read_channels[key][c]>>]] :
     raw \in {f \in [Keys -> UNION {[Channels(key) -> RawMV] : key \in Keys}] :
                 \A key \in Keys : DOMAIN f[key] = Channels(key)}}

\* the texts of the Max Temp entries when the button is pressed
EntrySets ==
    {f \in [Keys -> UNION {[Channels(key) -> EntryTexts] : key \in Keys}] :
        \A key \in Keys : DOMAIN f[key] = Channels(key)}

\* the values of the checkbox variables when a checkbox is toggled
CheckboxSets ==
    {f \in [Keys -> UNION {[Channels(key) -> BOOLEAN] : key \in Keys}] :
        \A key \in Keys : DOMAIN f[key] = Channels(key)}

NoStages == [key \in Keys |-> {}]

\* nothing drawn yet
NoDrawn == [time |-> <<>>, temp |-> [key \in Keys |-> <<>>]]

\* nothing converted yet
NoConv == [raises |-> FALSE, temp |-> <<>>, resistance |-> <<>>]

plot_vars == <<plot_n, drawn>>

conv_vars == <<cfg_vin, conv_in, conv_out>>

upd_vars == <<upd_entries, upd_sections, upd_before>>

\* the check_alarms harness is not in use
AlarmIdle == akey = "none" /\ temps_in = <<>> /\ idx = 0 /\ events = <<>>

\* the update_plot harness is not in use
PlotIdle == plot_n = log_max /\ drawn = NoDrawn

\* the processVoltage harness is not in use
ConvIdle == cfg_vin = vin /\ conv_in = <<>> /\ conv_out = NoConv

\* the update_max_temps harness is not in use
UpdIdle ==
    /\ upd_entries = [key \in Keys |-> <<>>]
    /\ upd_sections = {}
    /\ upd_before = config_max_temps

\* the application in the state __init__ leaves it in, at position p
AppQuiet(p) ==
    /\ pc = p
    /\ key_i = 0
    /\ ch_i = 0
    /\ voltages = NoReading
    /\ alarm_triggered = [key \in Keys |-> [c \in Channels(key) |-> FALSE]]
    /\ plot_channel = [key \in Keys |-> [c \in Channels(key) |-> TRUE]]
    /\ temp_interpolate_50k = "interp1d"
    /\ timers = 0
    /\ dialog = "none"
    /\ destroyed = FALSE
    /\ hw_closed = FALSE
    /\ raised = "none"
    /\ raised_key = "none"
    /\ done = NoStages
    /\ sent = {}
    /\ latch0 = alarm_triggered

Init ==
    /\ pc = "init"
    /\ key_i = 0
    /\ ch_i = 0
    /\ voltages = NoReading
    /\ time_data = <<>>
    /\ temp_data = [key \in Keys |-> <<>>]
    /\ voltage_data = [key \in Keys |-> <<>>]
    /\ max_temps = config_max_temps
    /\ alarm_triggered = [key \in Keys |-> [c \in Channels(key) |-> FALSE]]
    /\ plot_channel = [key \in Keys |-> [c \in Channels(key) |-> TRUE]]
    /\ temp_interpolate_50k \in {"interp1d", "None"}
    /\ timers = 0
    /\ dialog = "none"
    /\ destroyed = FALSE
    /\ hw_closed = FALSE
    /\ raised = "none"
    /\ raised_key = "none"
    /\ done = NoStages
    /\ sent = {}
    /\ latch0 = [key \in Keys |-> [c \in Channels(key) |-> FALSE]]
    /\ last_set = config_max_temps
    /\ akey = "none"
    /\ temps_in = <<>>
    /\ idx = 0
    /\ events = <<>>
    /\ PlotIdle
    /\ ConvIdle
    /\ UpdIdle

\* the variables only the specifications of single functions write
harness == <<akey, temps_in, idx, events, plot_vars, conv_vars, upd_vars>>

\* Tk dispatches a pending after callback: only from the event loop, and
\* never once the root window is destroyed
TimerFires == pc = "idle" /\ timers > 0 /\ ~destroyed

\* variant: a callback can start while update_data is running
UserCallback_any_time == dialog = "none" /\ ~destroyed

\* a button, checkbox or window-manager callback can start: the event loop is
\* idle, no modal dialog holds the grab and the window exists
UserCallback == pc = "idle" /\ dialog = "none" /\ ~destroyed

\* LabJackManager.read(): returns the readings of all devices, or raises when
\* the hardware fails
read_outcomes == {"ok", "raise"}

\* Logger.log(key, temp): appends the row, or reports the write failure to
\* its caller by raising
log_outcomes == {"ok", "raise"}

\* update_data, lines 225-228: read all devices, append the timestamp
update_data_read ==
    /\ pc = "init" \/ TimerFires
    /\ Len(time_data) < MaxCycles
    /\ timers' = IF pc = "init" THEN timers ELSE timers - 1
    /\ latch0' = alarm_triggered
    /\ sent' = {}
    /\ done' = NoStages
    /\ \/ \E rd \in Readings :
            /\ "ok" \in read_outcomes
            /\ voltages' = rd
            /\ time_data' = Append(time_data, Len(time_data) + 1)
            /\ pc' = "device"
            /\ key_i' = 1
            /\ UNCHANGED <<raised, raised_key>>
       \/ \E key \in Keys :
            /\ "raise" \in read_outcomes
            /\ raised' = "read"
            /\ raised_key' = key
            /\ pc' = except_Exception("read")
            /\ UNCHANGED <<voltages, time_data, key_i>>
    /\ UNCHANGED <<ch_i, temp_data, voltage_data, max_temps, alarm_triggered,
                   plot_channel, temp_interpolate_50k, dialog, destroyed,
                   hw_closed, last_set, harness>>

\* update_data, lines 231-242: convert, append the columns, log
update_data_device ==
    /\ pc = "device"
    /\ LET key  == ljsID[key_i]
           conv == processVoltage(voltages[key], key, temp_interpolate_50k)
           now  == time_data[Len(time_data)]
       IN  IF conv.raises
           THEN /\ raised' = "convert"
                /\ raised_key' = key
                /\ pc' = except_Exception("convert")
                /\ UNCHANGED <<temp_data, voltage_data, done, ch_i>>
           ELSE /\ temp_data' = [temp_data EXCEPT ![key] = Append(@, now)]
                /\ voltage_data' = [voltage_data EXCEPT ![key] = Append(@, now)]
                /\ \/ /\ "ok" \in log_outcomes
                      /\ done' = [done EXCEPT ![key] = {"buffered", "logged"}]
                      /\ pc' = "alarm"
                      /\ ch_i' = 1
                      /\ UNCHANGED <<raised, raised_key>>
                   \/ /\ "raise" \in log_outcomes
                      /\ done' = [done EXCEPT ![key] = {"buffered"}]
                      /\ raised' = "log"
                      /\ raised_key' = key
                      /\ pc' = except_Exception("log")
                      /\ UNCHANGED ch_i
    /\ UNCHANGED <<key_i, voltages, time_data, max_temps, alarm_triggered,
                   plot_channel, temp_interpolate_50k, timers, dialog,
                   destroyed, hw_closed, sent, latch0, last_set, harness>>

\* check_alarms: the loop moves to the next channel, the next device or the plot
AlarmAdvance ==
    LET key == ljsID[key_i] IN
    IF ch_i < NumCh(key)
    THEN /\ pc' = "alarm"
         /\ ch_i' = ch_i + 1
         /\ UNCHANGED <<key_i, done>>
    ELSE /\ done' = [done EXCEPT ![key] = @ \cup {"alarmed"}]
         /\ ch_i' = 0
         /\ IF key_i < Len(ljsID)
            THEN pc' = "device" /\ key_i' = key_i + 1
            ELSE pc' = "plot" /\ UNCHANGED key_i

\* check_alarms, lines 327-333: one channel; the email is sent synchronously
update_data_alarm ==
    /\ pc = "alarm"
    /\ LET key      == ljsID[key_i]
           conv     == processVoltage(voltages[key], key, temp_interpolate_50k)
           temp_val == conv.temp[ch_i]
           thr      == max_temps[key][ch_i]
           latched  == alarm_triggered[key][ch_i]
       IN  IF AlarmSends(temp_val, thr, latched)
           THEN /\ pc' = "send"
                /\ sent' = sent \cup {<<key, ch_i, "sending">>}
                /\ UNCHANGED <<alarm_triggered, key_i, ch_i, done>>
           ELSE /\ alarm_triggered' = [alarm_triggered EXCEPT ![key][ch_i] =
                                          AlarmLatch(temp_val, thr, latched)]
                /\ AlarmAdvance
                /\ UNCHANGED sent
    /\ UNCHANGED <<voltages, time_data, temp_data, voltage_data, max_temps,
                   plot_channel, temp_interpolate_50k, timers, dialog,
                   destroyed, hw_closed, raised, raised_key, latch0, last_set,
                   harness>>

\* variant: send_alarm_email has no try/except, so a failed delivery
\* propagates out of check_alarms to the except of update_data
send_alarm_email_uncaught ==
    /\ pc = "send"
    /\ LET key == ljsID[key_i]
       IN  \E outcome \in {"delivered", "failed"} :
             /\ sent' = (sent \ {<<key, ch_i, "sending">>})
                            \cup {<<key, ch_i, outcome>>}
             /\ IF outcome = "failed"
                THEN /\ raised' = "alarm"
                     /\ raised_key' = key
                     /\ pc' = except_Exception("alarm")
                     /\ UNCHANGED <<alarm_triggered, key_i, ch_i, done>>
                ELSE /\ alarm_triggered' =
                            [alarm_triggered EXCEPT ![key][ch_i] = TRUE]
                     /\ AlarmAdvance
                     /\ UNCHANGED <<raised, raised_key>>
    /\ UNCHANGED <<voltages, time_data, temp_data, voltage_data, max_temps,
                   plot_channel, temp_interpolate_50k, timers, dialog,
                   destroyed, hw_closed, latch0, last_set, harness>>

\* send_alarm_email, lines 337-355, returns (delivered, or the failure was
\* caught and printed); line 331 then sets the latch
send_alarm_email_returns ==
    /\ pc = "send"
    /\ LET key      == ljsID[key_i]
           conv     == processVoltage(voltages[key], key, temp_interpolate_50k)
           temp_val == conv.temp[ch_i]
           thr      == max_temps[key][ch_i]
           latched  == alarm_triggered[key][ch_i]
       IN  /\ \E outcome \in {"delivered", "failed"} :
                sent' = (sent \ {<<key, ch_i, "sending">>})
                            \cup {<<key, ch_i, outcome>>}
           /\ alarm_triggered' = [alarm_triggered EXCEPT ![key][ch_i] =
                                     AlarmLatch(temp_val, thr, latched)]
           /\ AlarmAdvance
    /\ UNCHANGED <<voltages, time_data, temp_data, voltage_data, max_temps,
                   plot_channel, temp_interpolate_50k, timers, dialog,
                   destroyed, hw_closed, raised, raised_key, latch0, last_set,
                   harness>>

\* update_data, line 245: update_plot
update_data_plot ==
    /\ pc = "plot"
    /\ \/ /\ ~PlotRaises
          /\ pc' = "after"
          /\ UNCHANGED <<raised, raised_key>>
       \/ /\ raised' = "plot"
          /\ raised_key' = "none"
          /\ pc' = except_Exception("plot")
    /\ UNCHANGED <<key_i, ch_i, voltages, time_data, temp_data, voltage_data,
                   max_temps, alarm_triggered, plot_channel,
                   temp_interpolate_50k, timers, dialog, destroyed, hw_closed,
                   done, sent, latch0, last_set, harness>>

\* update_data, line 250: schedule the next cycle and return to the event loop
update_data_after ==
    /\ pc = "after"
    /\ timers' = after(timers)
    /\ pc' = "idle"
    /\ key_i' = 0
    /\ ch_i' = 0
    /\ voltages' = NoReading
    /\ raised' = "none"
    /\ raised_key' = "none"
    /\ done' = NoStages
    /\ sent' = {}
    /\ latch0' = alarm_triggered
    /\ UNCHANGED <<time_data, temp_data, voltage_data, max_temps,
                   alarm_triggered, plot_channel, temp_interpolate_50k, dialog,
                   destroyed, hw_closed, last_set, harness>>

\* every entry of every device parses
AllEntriesValid(entries) ==
    \A key \in Keys : \A c \in Channels(key) : IsFloat(entries[key][c])

\* update_max_temps, lines 287-294.  sections: the devices whose alarm
\* section exists in the configuration when config.set is called
update_max_temps ==
    /\ UserCallback
    /\ \E entries \in EntrySets : \E sections \in SUBSET Keys :
          /\ max_temps' = update_from(max_temps, entries, sections, 1)
          /\ last_set' =
                IF AllEntriesValid(entries) /\ sections = Keys
                THEN [key \in Keys |->
                         [c \in Channels(key) |-> float(entries[key][c])]]
                ELSE max_temps'
    /\ UNCHANGED <<pc, key_i, ch_i, voltages, time_data, temp_data,
                   voltage_data, alarm_triggered, plot_channel,
                   temp_interpolate_50k, timers, dialog, destroyed, hw_closed,
                   raised, raised_key, done, sent, latch0, harness>>

\* save_data, lines 298-322: the export is written and showinfo opens, or
\* an exception (a column of another length, an I/O error) opens showerror
save_data ==
    /\ UserCallback
    /\ \/ ExportAssembles /\ dialog' = "showinfo"
       \/ dialog' = "showerror"
    /\ UNCHANGED <<pc, key_i, ch_i, voltages, time_data, temp_data,
                   voltage_data, max_temps, alarm_triggered, plot_channel,
                   temp_interpolate_50k, timers, destroyed, hw_closed, raised,
                   raised_key, done, sent, latch0, last_set, harness>>

\* the user closes the messagebox of save_data
save_data_dialog_closed ==
    /\ pc = "idle"
    /\ dialog \in {"showinfo", "showerror"}
    /\ dialog' = "none"
    /\ UNCHANGED <<pc, key_i, ch_i, voltages, time_data, temp_data,
                   voltage_data, max_temps, alarm_triggered, plot_channel,
                   temp_interpolate_50k, timers, destroyed, hw_closed, raised,
                   raised_key, done, sent, latch0, last_set, harness>>

\* checkbox_changed, lines 382-388
checkbox_changed ==
    /\ UserCallback
    /\ \E boxes \in CheckboxSets :
          /\ boxes # plot_channel
          /\ plot_channel' = boxes
    /\ UNCHANGED <<pc, key_i, ch_i, voltages, time_data, temp_data,
                   voltage_data, max_temps, alarm_triggered,
                   temp_interpolate_50k, timers, dialog, destroyed, hw_closed,
                   raised, raised_key, done, sent, latch0, last_set, harness>>

\* on_closing, line 392: the Quit question opens
on_closing ==
    /\ UserCallback
    /\ dialog' = "askokcancel"
    /\ UNCHANGED <<pc, key_i, ch_i, voltages, time_data, temp_data,
                   voltage_data, max_temps, alarm_triggered, plot_channel,
                   temp_interpolate_50k, timers, destroyed, hw_closed, raised,
                   raised_key, done, sent, latch0, last_set, harness>>

\* on_closing, line 393: closeLJ is called when the answer is OK
closeLJ_called(answer) == answer = "ok"

\* variant: the hardware is closed but the window is not destroyed
destroy_never(answer) == FALSE

\* on_closing, line 394: destroy is called when the answer is OK
destroy_called(answer) == answer = "ok"

\* on_closing, lines 392-394: the question is answered
on_closing_answered ==
    /\ pc = "idle"
    /\ dialog = "askokcancel"
    /\ \E answer \in {"ok", "cancel"} :
          /\ hw_closed' = closeLJ_called(answer)
          /\ destroyed' = destroy_called(answer)
    /\ dialog' = "none"
    /\ UNCHANGED <<pc, key_i, ch_i, voltages, time_data, temp_data,
                   voltage_data, max_temps, alarm_triggered, plot_channel,
                   temp_interpolate_50k, timers, raised, raised_key, done,
                   sent, latch0, last_set, harness>>

Next ==
    \/ update_data_read
    \/ update_data_device
    \/ update_data_alarm
    \/ send_alarm_email_returns
    \/ update_data_plot
    \/ update_data_after
    \/ update_max_temps
    \/ save_data
    \/ save_data_dialog_closed
    \/ checkbox_changed
    \/ on_closing
    \/ on_closing_answered

Spec == Init /\ [][Next]_vars

----------------------------------------------------------------------------
(* check_alarms on its own: a device, a fixed threshold list and a finite  *)
(* sequence of temperature vectors are drawn, the latch starts false, and  *)
(* check_alarms is applied to the vectors in order.                        *)

\* the temperatures the interpolator returns for RawMV
TempVals == {2, 3}

\* the thresholds a channel can have
ThresholdVals == {2, 3}

InitAlarm ==
    /\ pc = "harness"
    /\ key_i = 0
    /\ ch_i = 0
    /\ voltages = NoReading
    /\ time_data = <<>>
    /\ temp_data = [key \in Keys |-> <<>>]
    /\ voltage_data = [key \in Keys |-> <<>>]
    /\ akey \in Keys
    /\ max_temps \in {[config_max_temps EXCEPT ![akey] = thr] :
                         thr \in [Channels(akey) -> ThresholdVals]}
    /\ alarm_triggered = [key \in Keys |-> [c \in Channels(key) |-> FALSE]]
    /\ plot_channel = [key \in Keys |-> [c \in Channels(key) |-> TRUE]]
    /\ temp_interpolate_50k = "interp1d"
    /\ timers = 0
    /\ dialog = "none"
    /\ destroyed = FALSE
    /\ hw_closed = FALSE
    /\ raised = "none"
    /\ raised_key = "none"
    /\ done = NoStages
    /\ sent = {}
    /\ latch0 = alarm_triggered
    /\ last_set = max_temps
    /\ temps_in \in UNION {[1..n -> [Channels(akey) -> TempVals]] : n \in 0..MaxLen}
    /\ idx = 0
    /\ events = <<>>
    /\ PlotIdle
    /\ ConvIdle
    /\ UpdIdle

\* check_alarms(temp, key), lines 327-333, for the next vector: every channel
\* in order; send_alarm_email returns whether or not the delivery worked
check_alarms ==
    /\ pc = "harness"
    /\ idx < Len(temps_in)
    /\ LET temp  == temps_in[idx + 1]
           calls == SelectSeq([c \in Channels(akey) |-> c],
                       LAMBDA c : AlarmSends(temp[c], max_temps[akey][c],
                                             alarm_triggered[akey][c]))
       IN  /\ events' = events \o [n \in 1..Len(calls) |-> <<idx + 1, calls[n]>>]
           /\ alarm_triggered' = [alarm_triggered EXCEPT ![akey] =
                  [c \in Channels(akey) |->
                      AlarmLatch(temp[c], max_temps[akey][c],
                                 alarm_triggered[akey][c])]]
    /\ idx' = idx + 1
    /\ UNCHANGED <<pc, key_i, ch_i, voltages, time_data, temp_data,
                   voltage_data, max_temps, plot_channel, temp_interpolate_50k,
                   timers, dialog, destroyed, hw_closed, raised, raised_key,
                   done, sent, latch0, last_set, akey, temps_in,
                   plot_vars, conv_vars, upd_vars>>

NextAlarm == check_alarms

SpecAlarm == InitAlarm /\ [][NextAlarm]_vars

----------------------------------------------------------------------------
(* update_plot on its own: a retention-window size and a history whose     *)
(* series are parallel are drawn, and the slices of update_plot are taken. *)

InitPlot ==
    /\ AppQuiet("plot_harness")
    /\ time_data \in {[j \in 1..len |-> j] : len \in 0..MaxHist}
    /\ temp_data = [key \in Keys |-> time_data]
    /\ voltage_data = [key \in Keys |-> time_data]
    /\ max_temps = config_max_temps
    /\ last_set = config_max_temps
    /\ plot_n \in 0..MaxWindow
    /\ drawn = NoDrawn
    /\ AlarmIdle
    /\ ConvIdle
    /\ UpdIdle

\* update_plot, lines 254-265: return when there is no data, else slice
update_plot ==
    /\ pc = "plot_harness"
    /\ pc' = "plotted"
    /\ drawn' = IF time_data = <<>>
                THEN drawn
                ELSE [time |-> plot_slice(time_data, plot_n, Len(time_data)),
                      temp |-> [key \in Keys |->
                          plot_slice(temp_data[key], plot_n, Len(time_data))]]
    /\ UNCHANGED <<key_i, ch_i, voltages, time_data, temp_data, voltage_data,
                   max_temps, alarm_triggered, plot_channel,
                   temp_interpolate_50k, timers, dialog, destroyed, hw_closed,
                   raised, raised_key, done, sent, latch0, last_set,
                   akey, temps_in, idx, events, plot_n, conv_vars, upd_vars>>

NextPlot == update_plot

SpecPlot == InitPlot /\ [][NextPlot]_vars

----------------------------------------------------------------------------
(* processVoltage on its own: a device, the excitation voltage getConfig   *)
(* read for it and applied with setOutput, and one reading per channel.    *)

InitConvert ==
    /\ AppQuiet("conv_harness")
    /\ time_data = <<>>
    /\ temp_data = [key \in Keys |-> <<>>]
    /\ voltage_data = [key \in Keys |-> <<>>]
    /\ max_temps = config_max_temps
    /\ last_set = config_max_temps
    /\ akey \in Keys
    /\ temps_in = <<>>
    /\ idx = 0
    /\ events = <<>>
    /\ cfg_vin \in VinVals
    /\ conv_in \in {[c \in Channels(akey) |-> <<raw[c], read_channels[akey][c]>>] :
                       raw \in [Channels(akey) -> ConvMV]}
    /\ conv_out = NoConv
    /\ PlotIdle
    /\ UpdIdle

\* processVoltage(voltages, key), lines 365-377, is called once
processVoltage_called ==
    /\ pc = "conv_harness"
    /\ pc' = "converted"
    /\ conv_out' = processVoltage(conv_in, akey, temp_interpolate_50k)
    /\ UNCHANGED <<key_i, ch_i, voltages, time_data, temp_data, voltage_data,
                   max_temps, alarm_triggered, plot_channel,
                   temp_interpolate_50k, timers, dialog, destroyed, hw_closed,
                   raised, raised_key, done, sent, latch0, last_set,
                   akey, temps_in, idx, events, plot_vars, cfg_vin, conv_in,
                   upd_vars>>

NextConvert == processVoltage_called

SpecConvert == InitConvert /\ [][NextConvert]_vars

----------------------------------------------------------------------------
(* update_max_temps on its own: thresholds in force, the texts of the Max  *)
(* Temp entries and the alarm sections the configuration has.              *)

\* the threshold lists max_temps can hold
ThresholdSets ==
    {f \in [Keys -> UNION {[Channels(key) -> ThresholdVals] : key \in Keys}] :
        \A key \in Keys : DOMAIN f[key] = Channels(key)}

InitUpdate ==
    /\ AppQuiet("upd_harness")
    /\ time_data = <<>>
    /\ temp_data = [key \in Keys |-> <<>>]
    /\ voltage_data = [key \in Keys |-> <<>>]
    /\ max_temps \in ThresholdSets
    /\ last_set = max_temps
    /\ upd_entries \in EntrySets
    /\ upd_sections \in SUBSET Keys
    /\ upd_before = max_temps
    /\ AlarmIdle
    /\ PlotIdle
    /\ ConvIdle

\* update_max_temps, lines 287-294, is called once
update_max_temps_called ==
    /\ pc = "upd_harness"
    /\ pc' = "updated"
    /\ max_temps' = update_from(max_temps, upd_entries, upd_sections, 1)
    /\ last_set' =
          IF AllEntriesValid(upd_entries) /\ upd_sections = Keys
          THEN [key \in Keys |->
                   [c \in Channels(key) |-> float(upd_entries[key][c])]]
          ELSE max_temps'
    /\ UNCHANGED <<key_i, ch_i, voltages, time_data, temp_data, voltage_data,
                   alarm_triggered, plot_channel, temp_interpolate_50k, timers,
                   dialog, destroyed, hw_closed, raised, raised_key, done, sent,
                   latch0, akey, temps_in, idx, events, plot_vars, conv_vars,
                   upd_vars>>

NextUpdate == update_max_temps_called

SpecUpdate == InitUpdate /\ [][NextUpdate]_vars

----------------------------------------------------------------------------
(* Properties. *)

\* the positions of the events recorded for channel c of the device under test
EventIndices(c) ==
    {events[n][1] : n \in {m \in 1..Len(events) : events[m][2] = c}}

\* the number of send_alarm_email calls recorded for channel c
EventCount(c) == Cardinality({m \in 1..Len(events) : events[m][2] = c})

\* the first position of every maximal contiguous run of values above thr
RunStarts(seq, thr) ==
    {j \in 1..Len(seq) : seq[j] > thr /\ (j = 1 \/ seq[j - 1] <= thr)}

\* the temperatures of channel c that check_alarms has evaluated so far
Evaluated(c) == [j \in 1..idx |-> temps_in[j][c]]

\* C1: for every channel and every finite temperature sequence evaluated
\* against a fixed threshold from a false latch, the send_alarm_email calls
\* are exactly one per maximal run of temperatures strictly above the
\* threshold, made at the first reading of the run, and the latch is set
\* exactly while the last reading evaluated was above the threshold.
C1_OneEventPerRun ==
    pc = "harness" =>
        \A c \in Channels(akey) :
            LET seq == Evaluated(c)
                thr == max_temps[akey][c]
            IN  /\ EventIndices(c) = RunStarts(seq, thr)
                /\ EventCount(c) = Cardinality(RunStarts(seq, thr))
                /\ alarm_triggered[akey][c] = (idx > 0 /\ seq[idx] > thr)

\* Scenario B (below, above, above, below, above): two events, at the
\* second and the fifth reading
C1_ScenarioB ==
    /\ pc = "harness"
    /\ idx = 5
    /\ \E c \in Channels(akey) :
          /\ Evaluated(c) = <<2, 3, 3, 2, 3>>
          /\ max_temps[akey][c] = 2
          /\ EventIndices(c) = {2, 5}
          /\ EventCount(c) = 2

\* C2: notification delivery is decoupled from the acquisition path: while
\* the transport is delivering an event, update_data is not waiting inside
\* send_alarm_email for it.
C2_DeliveryOffAcquisitionPath ==
    (\E e \in sent : e[3] = "sending") => pc # "send"

AllStages == {"buffered", "logged", "alarmed"}

\* C3: in a cycle where a channel's conversion fails, every channel whose
\* conversion does not fail still has its sample buffered, logged and
\* alarm-evaluated in that cycle.
C3_ConversionFailureIsolated ==
    (pc = "after" /\ raised = "convert") =>
        \A key \in Keys : \A c \in Channels(key) :
            ~ConvertRaises(voltages[key][c], key, temp_interpolate_50k)
                => done[key] = AllStages

\* C4: a hardware read failure of one device skips only that device: every
\* other device is buffered, logged and alarm-evaluated in that cycle.
C4_ReadFailureIsolated ==
    (pc = "after" /\ raised = "read") =>
        \A key \in Keys \ {raised_key} : done[key] = AllStages

\* C5: when the log append fails for a device, the alarm evaluation of that
\* device and the processing of the other devices still take place in the
\* same cycle.
C5_LogFailureIsolated ==
    (pc = "after" /\ raised = "log") =>
        /\ "alarmed" \in done[raised_key]
        /\ \A key \in Keys \ {raised_key} : done[key] = AllStages

\* C6: whatever raised inside a cycle is caught and control reaches the line
\* that schedules the next cycle: whenever update_data is not running and the
\* window has not been destroyed, a timer for the next cycle is pending.
C6_NextCycleScheduled ==
    /\ raised # "none" => pc = "after"
    /\ (pc = "idle" /\ ~destroyed) => timers >= 1

\* a cycle raised before device A was buffered, and the next one is scheduled
C6_ScheduledAfterRaise ==
    /\ pc = "idle"
    /\ ~destroyed
    /\ timers = 1
    /\ Len(temp_data["A"]) < Len(time_data)

\* C7: once the hardware is closed and the window destroyed, update_data
\* never starts again: nothing is read, no timestamp is appended and the
\* pending timer is never consumed.
C7_NoCycleAfterStop ==
    [][(destroyed \/ hw_closed) =>
          (pc' = "idle" /\ UNCHANGED <<time_data, voltages, timers>>)]_vars

\* the window is destroyed while the timer of the next cycle is pending
C7_StoppedWithPendingTimer ==
    /\ destroyed
    /\ hw_closed
    /\ pc = "idle"
    /\ timers = 1

\* C8: at most one cycle is in progress or scheduled: a running update_data
\* and the pending timers together never number more than one, also while a
\* modal dialog is open.
C8_CyclesNeverOverlap ==
    (IF pc = "idle" THEN 0 ELSE 1) + timers <= 1

\* a cycle is running while the dialog of save_data or on_closing is open
C8_CycleDuringDialog ==
    /\ dialog # "none"
    /\ pc \in {"device", "alarm", "send", "plot"}
    /\ timers = 0

\* C9: in a cycle where a channel's conversion fails, that channel's latch
\* keeps the value it had when the cycle started and send_alarm_email is not
\* called for it.
C9_MissingSampleKeepsLatch ==
    \A key \in Keys : \A c \in Channels(key) :
        (/\ voltages[key] # <<>>
         /\ ConvertRaises(voltages[key][c], key, temp_interpolate_50k))
        => /\ alarm_triggered[key][c] = latch0[key][c]
           /\ \A e \in sent : ~(e[1] = key /\ e[2] = c)

\* a cycle ended by a failed conversion of a channel whose latch was set
C9_FailedChannelLatched ==
    /\ pc = "after"
    /\ raised = "convert"
    /\ temp_interpolate_50k = "interp1d"
    /\ \E key \in Keys : \E c \in Channels(key) :
          /\ ConvertRaises(voltages[key][c], key, temp_interpolate_50k)
          /\ latch0[key][c]
          /\ alarm_triggered[key][c]

\* C10: the latches start false; a step that changes the thresholds changes
\* no latch and sends nothing; a latch changes only inside check_alarms; and
\* every evaluation of check_alarms compares the temperature with the
\* threshold most recently accepted by update_max_temps.
C10_ThresholdUpdateNextEvaluation ==
    /\ \A key \in Keys : \A c \in Channels(key) : ~alarm_triggered[key][c]
    /\ [][/\ (max_temps' # max_temps \/ last_set' # last_set)
                => (alarm_triggered' = alarm_triggered /\ sent' = sent)
          /\ alarm_triggered' # alarm_triggered => pc \in {"alarm", "send"}
          /\ pc = "alarm" =>
                LET key      == ljsID[key_i]
                    temp_val == processVoltage(voltages[key], key,
                                    temp_interpolate_50k).temp[ch_i]
                    thr      == last_set[key][ch_i]
                IN  IF temp_val > thr /\ ~alarm_triggered[key][ch_i]
                    THEN pc' = "send"
                    ELSE /\ pc' # "send"
                         /\ alarm_triggered'[key][ch_i] = (temp_val > thr)
          /\ pc = "send" => alarm_triggered'[ljsID[key_i]][ch_i]
         ]_vars

\* the first channel of A was raised from 2 to 3 and then read 3: no alarm
C10_NewThresholdUsed ==
    /\ pc \in {"device", "plot"}
    /\ config_max_temps["A"][1] = 2
    /\ last_set["A"][1] = 3
    /\ "alarmed" \in done["A"]
    /\ processVoltage(voltages["A"], "A", temp_interpolate_50k).temp[1] = 3
    /\ ~alarm_triggered["A"][1]
    /\ \A e \in sent : ~(e[1] = "A" /\ e[2] = 1)

\* the last k elements of a series, oldest first
LastSamples(seq, k) == SubSeq(seq, Len(seq) - k + 1, Len(seq))

\* C11: for every window size n >= 0 and every history length, the time
\* slice and every temperature slice of update_plot are exactly the last
\* min(n, length) samples, oldest first.
C11_WindowIsLastMin ==
    pc = "plotted" =>
        LET k == Min(plot_n, Len(time_data))
        IN  /\ drawn.time = LastSamples(time_data, k)
            /\ \A key \in Keys : drawn.temp[key] = LastSamples(temp_data[key], k)

\* C12: whenever a reading passed to processVoltage is at or above the
\* excitation voltage configured for the device, processVoltage raises and
\* returns nothing.
C12_FailsAtOrAboveVin ==
    (pc = "converted" /\ \E n \in 1..Len(conv_in) : conv_in[n][1] >= cfg_vin)
        => conv_out.raises

\* C13: the resistance processVoltage returns for a reading with
\* 0 <= voltage < the device's configured Vin is r1 * voltage / (Vin - voltage),
\* r1 being the reference resistance of the channel the reading names.
C13_ResistanceUsesDeviceVin ==
    (pc = "converted" /\ ~conv_out.raises) =>
        \A n \in 1..Len(conv_in) :
            LET mv == conv_in[n][1]
                r1 == resistances[akey][IndexOf(read_channels[akey], conv_in[n][2])]
            IN  (0 <= mv /\ mv < cfg_vin) =>
                    conv_out.resistance[n] * (cfg_vin - mv) = r1 * mv

\* C14: when getThermistorData failed to build the calibration table (the
\* interpolator is None), the application never leaves construction: no
\* acquisition cycle is started, nothing is appended and no timer is set.
C14_NoCycleWithoutCalibration ==
    temp_interpolate_50k = "None" =>
        (pc = "init" /\ time_data = <<>> /\ timers = 0)

\* C15: max_temps changes only in a step that starts and ends with
\* update_data not running, so every channel evaluated by check_alarms within
\* one cycle is compared against the same threshold list.
C15_ThresholdsFixedWithinCycle ==
    [][(pc # "idle" \/ pc' # "idle") => max_temps' = max_temps]_vars

\* a cycle evaluates the second channel of device A against thresholds that
\* update_max_temps replaced as a whole before the cycle began
C15_CycleUsesUpdatedList ==
    /\ pc = "alarm"
    /\ key_i = 1
    /\ ch_i = 2
    /\ max_temps["A"] = <<3, 3>>
    /\ config_max_temps["A"] # <<3, 3>>

\* C16: whenever update_data is not running, time_data is as long as
\* temp_data[key] and voltage_data[key] have columns, for every device, so
\* save_data can assemble the export.
C16_SeriesParallel ==
    pc = "idle" => ExportAssembles

\* C17: when send_alarm_email returns, delivered or failed, the latch of the
\* channel is set and the cycle goes on without an exception; a delivery is
\* attempted only for a reading above the threshold on a channel whose latch
\* is clear; and a latch is cleared only by an evaluation of that channel with
\* a temperature at or below the threshold.
C17_FailedDeliveryNotRetried ==
    [][/\ pc = "send" =>
             /\ alarm_triggered'[ljsID[key_i]][ch_i]
             /\ raised' = "none"
             /\ pc' \in {"alarm", "device", "plot"}
             /\ \E outcome \in {"delivered", "failed"} :
                    <<ljsID[key_i], ch_i, outcome>> \in sent'
       /\ pc' = "send" =>
             /\ pc = "alarm"
             /\ ~alarm_triggered[ljsID[key_i]][ch_i]
             /\ processVoltage(voltages[ljsID[key_i]], ljsID[key_i],
                               temp_interpolate_50k).temp[ch_i]
                    > max_temps[ljsID[key_i]][ch_i]
       /\ \A key \in Keys : \A c \in Channels(key) :
             (alarm_triggered[key][c] /\ ~alarm_triggered'[key][c]) =>
                 /\ pc = "alarm"
                 /\ key = ljsID[key_i]
                 /\ c = ch_i
                 /\ processVoltage(voltages[key], key,
                                   temp_interpolate_50k).temp[c]
                        <= max_temps[key][c]
      ]_vars

\* a delivery failed, the latch of that channel is set and the cycle reached
\* its end without an exception
C17_FailedAndLatched ==
    /\ pc = "after"
    /\ raised = "none"
    /\ <<"A", 1, "failed">> \in sent
    /\ alarm_triggered["A"][1]

\* C18: after update_max_temps, a device with an entry that is not a number
\* has the thresholds it had before, and a device whose entries are all
\* numbers has the entered values.
C18_AllOrNothingPerDevice ==
    pc = "updated" =>
        \A key \in Keys :
            IF \E c \in Channels(key) : ~IsFloat(upd_entries[key][c])
            THEN max_temps[key] = upd_before[key]
            ELSE max_temps[key] =
                     [c \in Channels(key) |-> float(upd_entries[key][c])]

====
